---- MODULE Spec2Model ----
\* Model of vsix_installer.py: main() builds the list of extension entries,
\* install() drains it with one retry per entry on HTTP 429.
\* Text (entries, header values, paths) is modelled as sequences of
\* one-character strings; the clock counts whole seconds.
EXTENDS Integers, Sequences, FiniteSets, TLC

\* ---------------------------------------------------------------- bounds
MaxArgs == 1
MaxLines == 1

\* ------------------------------------------------------------- constants
RateLimited == 429
SecondsPerDay == 86400

\* --------------------------------------------------------- text helpers
Lower == {"a", "b", "c", "d", "e", "f", "g", "h", "i", "j", "k", "l", "m",
          "n", "o", "p", "q", "r", "s", "t", "u", "v", "w", "x", "y", "z"}
Upper == {"A", "B", "C", "D", "E", "F", "G", "H", "I", "J", "K", "L", "M",
          "N", "O", "P", "Q", "R", "S", "T", "U", "V", "W", "X", "Y", "Z"}
DigitChars == <<"0", "1", "2", "3", "4", "5", "6", "7", "8", "9">>
Digit == {DigitChars[i] : i \in 1..10}
Whitespace == {" ", "\t", "\n", "\r"}

\* [a-zA-Z0-9_-]
WordChar == Lower \cup Upper \cup Digit \cup {"_", "-"}
\* [0-9\.]
VersionChar == Digit \cup {"."}

DigitVal(c) == (CHOOSE i \in 1..10 : DigitChars[i] = c) - 1

RECURSIVE DigitsValue(_)
DigitsValue(s) ==
    IF s = <<>> THEN 0
    ELSE 10 * DigitsValue(SubSeq(s, 1, Len(s) - 1)) + DigitVal(s[Len(s)])

AllDigits(s) == Len(s) >= 1 /\ \A i \in 1..Len(s) : s[i] \in Digit

\* int(text) accepts an optional sign followed by decimal digits.
IntParses(s) ==
    \/ AllDigits(s)
    \/ Len(s) >= 2 /\ s[1] \in {"-", "+"} /\ AllDigits(Tail(s))

IntValue(s) ==
    IF s[1] = "-" THEN 0 - DigitsValue(Tail(s))
    ELSE IF s[1] = "+" THEN DigitsValue(Tail(s))
    ELSE DigitsValue(s)

\* str.rstrip(): drop trailing whitespace.
RECURSIVE RStrip(_)
RStrip(s) ==
    IF s # <<>> /\ s[Len(s)] \in Whitespace
    THEN RStrip(SubSeq(s, 1, Len(s) - 1))
    ELSE s

\* Length of the longest run of characters of class cls starting at s[i].
RECURSIVE RunLen(_, _, _)
RunLen(s, i, cls) ==
    IF i <= Len(s) /\ s[i] \in cls THEN 1 + RunLen(s, i + 1, cls) ELSE 0

\* --------------------------------------------------- identifier pattern
\* prog.match(entry): anchored at the start of the entry only.
PubLen(s) == RunLen(s, 1, WordChar)
ExtLen(s) == RunLen(s, PubLen(s) + 2, WordChar)
VerLen(s) == RunLen(s, PubLen(s) + ExtLen(s) + 3, VersionChar)

Matches(s) ==
    /\ PubLen(s) >= 1
    /\ Len(s) >= PubLen(s) + 1
    /\ s[PubLen(s) + 1] = "."
    /\ ExtLen(s) >= 1
    /\ Len(s) >= PubLen(s) + ExtLen(s) + 2
    /\ s[PubLen(s) + ExtLen(s) + 2] = "@"
    /\ VerLen(s) >= 1

GroupDict(s) ==
    [publisher |-> SubSeq(s, 1, PubLen(s)),
     extension |-> SubSeq(s, PubLen(s) + 2, PubLen(s) + ExtLen(s) + 1),
     version   |-> SubSeq(s, PubLen(s) + ExtLen(s) + 3,
                          PubLen(s) + ExtLen(s) + VerLen(s) + 2)]

NoMatch == [publisher |-> <<>>, extension |-> <<>>, version |-> <<>>]

RemoteSsh == <<"r", "e", "m", "o", "t", "e", "-", "s", "s", "h">>

\* ------------------------------------------------------------- paths
ExtDir == <<"v", "s", "i", "x", "-", "0">>
VsixName(entry) == entry \o <<".", "v", "s", "i", "x">>
PathJoin(dir, name) == dir \o <<"/">> \o name
ServerTgz == <<"v", "s", "c", "o", "d", "e", "-", "s", "e", "r", "v", "e", "r">>

\* ------------------------------------------------------ rate-limit headers
\* A response's headers: a function from the header names present to text.
HLimit == "X-RateLimit-Limit"
HRemaining == "X-RateLimit-Remaining"
HReset == "X-RateLimit-Reset"

MinusOne == <<"-", "1">>

\* headers.get(name, default)
HeaderGet(h, name, default) == IF name \in DOMAIN h THEN h[name] ELSE default

\* int(headers.get(name, '-1')) raises ValueError when the text is no integer.
HeaderParses(h, name) == IntParses(HeaderGet(h, name, MinusOne))
HeaderInt(h, name) == IntValue(HeaderGet(h, name, MinusOne))

HeadersParse(h) ==
    HeaderParses(h, HLimit) /\ HeaderParses(h, HRemaining) /\ HeaderParses(h, HReset)

\* ----------------------------------------------------------- input sets
TokPlain == <<"a", ".", "b", "@", "1">>
TokSsh == <<"m", ".">> \o RemoteSsh \o <<"@", "2">>
TokNoVersion == <<"a", ".", "b">>
TokBadChar == <<"a", "!", ".", "b", "@", "1">>
TokTrailing == <<"a", ".", "b", "@", "1", "!">>
\* Command-line identifiers tried; the plain token comes from the list file.
Tokens == {TokSsh, TokNoVersion, TokBadChar, TokTrailing}

FileLines == {TokPlain \o <<"\n">>, <<"\n">>}

SeqsUpTo(S, n) == UNION {[1..k -> S] : k \in 0..n}

LimitTexts == {<<"6", "0">>}
RemainingTexts == {<<"0">>}
ResetTexts == {<<"9", "9", "9", "9", "5">>,
               <<"1", "0", "0", "0", "0", "5">>,
               <<"1", "8", "6", "4", "0", "5">>}
BadText == <<"x">>
NowValues == {100000}

\* All header maps over the three names, each absent or carrying one text.
Opt(S) == {<<>>} \cup {<<t>> : t \in S}
MkHeaders(l, rm, rs) ==
    [n \in ((IF l # <<>> THEN {HLimit} ELSE {})
            \cup (IF rm # <<>> THEN {HRemaining} ELSE {})
            \cup (IF rs # <<>> THEN {HReset} ELSE {})) |->
        IF n = HLimit THEN l[1] ELSE IF n = HRemaining THEN rm[1] ELSE rs[1]]
Unparsable(h) == {n \in DOMAIN h : ~IntParses(h[n])}
\* The responses tried: every combination of absent and integer headers, and
\* each header alone with an unparsable value.
GoodHeaderMaps ==
    {MkHeaders(l, rm, rs) : l \in Opt(LimitTexts), rm \in Opt(RemainingTexts),
                            rs \in Opt(ResetTexts)}
BadHeaderMaps == {[n \in {bad} |-> BadText] : bad \in {HLimit, HRemaining, HReset}}
HeaderMaps == GoodHeaderMaps \cup BadHeaderMaps

ErrorCodes == {RateLimited, 404}
ExitStatuses == {0, 1}

\* ---------------------------------------------------------------- state
VARIABLES
    pc,            \* position in main()/install()
    argv,          \* args.extensions: the positional arguments
    listFile,      \* args.file: <<>> when not given, else <<lines>>
    download_only, \* args.download_only
    extensions,    \* the list install() consumes
    queue0,        \* the list as passed to install()
    retry,         \* install(): retry
    entry,         \* install(): entry
    item,          \* 1-based position in queue0 of entry
    extension,     \* install(): extension (groupdict of the match)
    dst,           \* install(): dst
    res,           \* headers of the last response whose headers were read
    limit,         \* install(): limit
    remaining,     \* install(): remaining
    reset,         \* install(): reset
    clock,         \* datetime.now() as read by this iteration's sleep, -1 if none
    sleepFor,      \* argument of this iteration's time.sleep, -1 if none
    status,        \* exit status of this iteration's installer run, -1 if none
    log,           \* observable operations so far, in order
    exc,           \* exception propagating out of install(), "none" if none
    excLine,       \* source line that raised it, 0 if none
    exitCode       \* process exit status, -1 while running

vars == <<pc, argv, listFile, download_only, extensions, queue0, retry, entry,
          item, extension, dst, res, limit, remaining, reset, clock, sleepFor,
          status, log, exc, excLine, exitCode>>

Ev(op, idx, val, path) == [op |-> op, idx |-> idx, val |-> val, path |-> path]

\* 1-based position in queue0 of the current head of the list.
Cursor == Len(queue0) - Len(extensions) + 1

NoHeaders == MkHeaders(<<>>, <<>>, <<>>)

Init ==
    /\ pc = "main"
    /\ argv \in SeqsUpTo(Tokens, MaxArgs)
    /\ listFile \in Opt(SeqsUpTo(FileLines, MaxLines))
    /\ download_only \in BOOLEAN
    /\ extensions = <<>>
    /\ queue0 = <<>>
    /\ retry = FALSE
    /\ entry = <<>>
    /\ item = 0
    /\ extension = NoMatch
    /\ dst = <<>>
    /\ res = NoHeaders
    /\ limit = -1
    /\ remaining = -1
    /\ reset = -1
    /\ clock = -1
    /\ sleepFor = -1
    /\ status = -1
    /\ log = <<>>
    /\ exc = "none"
    /\ excLine = 0
    /\ exitCode = -1

\* raise: the exception leaves install() and reaches main().
Raise(name, line) ==
    /\ pc' = "raised"
    /\ exc' = name
    /\ excLine' = line

\* ------------------------------------------------------------- main()
\* Variant of MainBuild that puts the file's tokens ahead of the arguments.
MainBuildFileFirst ==
    /\ pc = "main"
    /\ extensions' =
         IF listFile # <<>>
         THEN [i \in 1..Len(listFile[1]) |-> RStrip(listFile[1][i])] \o argv
         ELSE argv
    /\ queue0' = extensions'
    /\ pc' = "entry"
    /\ UNCHANGED <<argv, listFile, download_only, retry, entry, item,
                   extension, dst, res, limit, remaining, reset, clock,
                   sleepFor, status, log, exc, excLine, exitCode>>

\* extensions = args.extensions; extensions.extend(rstripped file lines)
MainBuild ==
    /\ pc = "main"
    /\ extensions' =
         IF listFile # <<>>
         THEN argv \o [i \in 1..Len(listFile[1]) |-> RStrip(listFile[1][i])]
         ELSE argv
    /\ queue0' = extensions'
    /\ pc' = "entry"
    /\ UNCHANGED <<argv, listFile, download_only, retry, entry, item,
                   extension, dst, res, limit, remaining, reset, clock,
                   sleepFor, status, log, exc, excLine, exitCode>>

\* ----------------------------------------------------------- install()
\* if not extensions: return
InstallNoExtensions ==
    /\ pc = "entry"
    /\ extensions = <<>>
    /\ pc' = "returned"
    /\ UNCHANGED <<argv, listFile, download_only, extensions, queue0, retry,
                   entry, item, extension, dst, res, limit, remaining, reset,
                   clock, sleepFor, status, log, exc, excLine, exitCode>>

\* retry = False, then the first test of the while loop
InstallBegin ==
    /\ pc = "entry"
    /\ extensions # <<>>
    /\ retry' = FALSE
    /\ pc' = "while"
    /\ UNCHANGED <<argv, listFile, download_only, extensions, queue0, entry,
                   item, extension, dst, res, limit, remaining, reset, clock,
                   sleepFor, status, log, exc, excLine, exitCode>>

\* while extensions: false -> 'All extensions processed', return
LoopExit ==
    /\ pc = "while"
    /\ extensions = <<>>
    /\ pc' = "returned"
    /\ UNCHANGED <<argv, listFile, download_only, extensions, queue0, retry,
                   entry, item, extension, dst, res, limit, remaining, reset,
                   clock, sleepFor, status, log, exc, excLine, exitCode>>

\* entry = extensions[0]; extension = prog.match(entry).groupdict(); dst = ...
ParseEntry ==
    /\ pc = "while"
    /\ extensions # <<>>
    /\ Matches(extensions[1])
    /\ entry' = extensions[1]
    /\ item' = Cursor
    /\ extension' = GroupDict(extensions[1])
    /\ dst' = PathJoin(ExtDir, VsixName(extensions[1]))
    /\ clock' = -1
    /\ sleepFor' = -1
    /\ status' = -1
    /\ pc' = "fetch"
    /\ UNCHANGED <<argv, listFile, download_only, extensions, queue0, retry,
                   res, limit, remaining, reset, log, exc, excLine, exitCode>>

\* prog.match(entry) is None: .groupdict() raises AttributeError
ParseEntryFails ==
    /\ pc = "while"
    /\ extensions # <<>>
    /\ ~Matches(extensions[1])
    /\ entry' = extensions[1]
    /\ item' = Cursor
    /\ Raise("AttributeError", 100)
    /\ UNCHANGED <<argv, listFile, download_only, extensions, queue0, retry,
                   extension, dst, res, limit, remaining, reset, clock,
                   sleepFor, status, log, exitCode>>

\* urlopen returns a 2xx response; the body is copied, the three headers read.
FetchOk(h) ==
    /\ pc = "fetch"
    /\ HeadersParse(h)
    /\ res' = h
    /\ limit' = HeaderInt(h, HLimit)
    /\ remaining' = HeaderInt(h, HRemaining)
    /\ reset' = HeaderInt(h, HReset)
    /\ log' = Append(log, Ev("fetch", item, 200, dst))
    /\ pc' = "run"
    /\ UNCHANGED <<argv, listFile, download_only, extensions, queue0, retry,
                   entry, item, extension, dst, clock, sleepFor, status, exc,
                   excLine, exitCode>>

\* Line of the first int(...) of a block starting at line first that raises.
BadHeaderLine(h, first) ==
    IF ~HeaderParses(h, HLimit) THEN first
    ELSE IF ~HeaderParses(h, HRemaining) THEN first + 1
    ELSE first + 2

\* urlopen returns a 2xx response; int(...) of a header raises ValueError,
\* which the except HTTPError clause does not catch.
FetchOkBadHeader(h) ==
    /\ pc = "fetch"
    /\ ~HeadersParse(h)
    /\ res' = h
    /\ limit' = IF HeaderParses(h, HLimit) THEN HeaderInt(h, HLimit) ELSE limit
    /\ remaining' = IF HeaderParses(h, HLimit) /\ HeaderParses(h, HRemaining)
                    THEN HeaderInt(h, HRemaining) ELSE remaining
    /\ log' = Append(log, Ev("fetch", item, 200, dst))
    /\ Raise("ValueError", BadHeaderLine(h, 115))
    /\ UNCHANGED <<argv, listFile, download_only, extensions, queue0, retry,
                   entry, item, extension, dst, reset, clock, sleepFor,
                   status, exitCode>>

\* Variant of FetchHttpError that handles every HTTP error like a first 429.
FetchHttpErrorRetried(code) ==
    /\ pc = "fetch"
    /\ code # RateLimited
    /\ retry' = TRUE
    /\ log' = Append(log, Ev("fetch", item, code, dst))
    /\ pc' = "sleep"
    /\ UNCHANGED <<argv, listFile, download_only, extensions, queue0, entry,
                   item, extension, dst, res, limit, remaining, reset, clock,
                   sleepFor, status, exc, excLine, exitCode>>

\* except HTTPError: exc.code != 429 -> raise exc
FetchHttpError(code) ==
    /\ pc = "fetch"
    /\ code # RateLimited
    /\ log' = Append(log, Ev("fetch", item, code, dst))
    /\ Raise("HTTPError", 131)
    /\ UNCHANGED <<argv, listFile, download_only, extensions, queue0, retry,
                   entry, item, extension, dst, res, limit, remaining, reset,
                   clock, sleepFor, status, exitCode>>

\* Variant of FetchRateLimitedExhausted that keeps retrying instead of raising.
FetchRateLimitedExhaustedRetries ==
    /\ pc = "fetch"
    /\ retry
    /\ log' = Append(log, Ev("fetch", item, RateLimited, dst))
    /\ pc' = "sleep"
    /\ UNCHANGED <<argv, listFile, download_only, extensions, queue0, retry,
                   entry, item, extension, dst, res, limit, remaining, reset,
                   clock, sleepFor, status, exc, excLine, exitCode>>

\* except HTTPError: code 429 and retry already set -> raise SystemExit
FetchRateLimitedExhausted ==
    /\ pc = "fetch"
    /\ retry
    /\ log' = Append(log, Ev("fetch", item, RateLimited, dst))
    /\ Raise("SystemExit", 134)
    /\ UNCHANGED <<argv, listFile, download_only, extensions, queue0, retry,
                   entry, item, extension, dst, res, limit, remaining, reset,
                   clock, sleepFor, status, exitCode>>

\* Variant of FetchRateLimitedFirst that falls through to the installer.
FetchRateLimitedFirstInstalls(h) ==
    /\ pc = "fetch"
    /\ ~retry
    /\ HeadersParse(h)
    /\ res' = h
    /\ limit' = HeaderInt(h, HLimit)
    /\ remaining' = HeaderInt(h, HRemaining)
    /\ reset' = HeaderInt(h, HReset)
    /\ retry' = TRUE
    /\ log' = Append(log, Ev("fetch", item, RateLimited, dst))
    /\ pc' = "run"
    /\ UNCHANGED <<argv, listFile, download_only, extensions, queue0, entry,
                   item, extension, dst, clock, sleepFor, status, exc, excLine,
                   exitCode>>

\* except HTTPError: code 429, first time: read the headers, retry = True
FetchRateLimitedFirst(h) ==
    /\ pc = "fetch"
    /\ ~retry
    /\ HeadersParse(h)
    /\ res' = h
    /\ limit' = HeaderInt(h, HLimit)
    /\ remaining' = HeaderInt(h, HRemaining)
    /\ reset' = HeaderInt(h, HReset)
    /\ retry' = TRUE
    /\ log' = Append(log, Ev("fetch", item, RateLimited, dst))
    /\ pc' = "sleep"
    /\ UNCHANGED <<argv, listFile, download_only, extensions, queue0, entry,
                   item, extension, dst, clock, sleepFor, status, exc,
                   excLine, exitCode>>

\* except HTTPError: code 429, first time: int(...) of a header raises
\* ValueError inside the handler, before retry = True.
FetchRateLimitedBadHeader(h) ==
    /\ pc = "fetch"
    /\ ~retry
    /\ ~HeadersParse(h)
    /\ res' = h
    /\ limit' = IF HeaderParses(h, HLimit) THEN HeaderInt(h, HLimit) ELSE limit
    /\ remaining' = IF HeaderParses(h, HLimit) /\ HeaderParses(h, HRemaining)
                    THEN HeaderInt(h, HRemaining) ELSE remaining
    /\ log' = Append(log, Ev("fetch", item, RateLimited, dst))
    /\ Raise("ValueError", BadHeaderLine(h, 137))
    /\ UNCHANGED <<argv, listFile, download_only, extensions, queue0, retry,
                   entry, item, extension, dst, reset, clock, sleepFor,
                   status, exitCode>>

\* if not download_only: subprocess.run([vscode, '--install-extension', dst]);
\* the exit status st of the installer is not examined.
InstallExtension(st) ==
    /\ pc = "run"
    /\ ~download_only
    /\ status' = st
    /\ log' = Append(log, Ev("install", item, 0, dst))
    /\ pc' = "pop"
    /\ UNCHANGED <<argv, listFile, download_only, extensions, queue0, retry,
                   entry, item, extension, dst, res, limit, remaining, reset,
                   clock, sleepFor, exc, excLine, exitCode>>

\* if not download_only: false
SkipInstall ==
    /\ pc = "run"
    /\ download_only
    /\ pc' = "pop"
    /\ UNCHANGED <<argv, listFile, download_only, extensions, queue0, retry,
                   entry, item, extension, dst, res, limit, remaining, reset,
                   clock, sleepFor, status, log, exc, excLine, exitCode>>

\* Variant of PopEntry that leaves the entry in the list.
PopEntryKeepsEntry ==
    /\ pc = "pop"
    /\ retry' = FALSE
    /\ log' = Append(log, Ev("pop", item, 0, <<>>))
    /\ pc' = "sleep"
    /\ UNCHANGED <<argv, listFile, download_only, extensions, queue0, entry,
                   item, extension, dst, res, limit, remaining, reset, clock,
                   sleepFor, status, exc, excLine, exitCode>>

\* Variant of PopEntry that leaves retry as it is.
PopEntryKeepsRetry ==
    /\ pc = "pop"
    /\ extensions' = Tail(extensions)
    /\ log' = Append(log, Ev("pop", item, 0, <<>>))
    /\ pc' = "sleep"
    /\ UNCHANGED <<argv, listFile, download_only, queue0, retry, entry, item,
                   extension, dst, res, limit, remaining, reset, clock,
                   sleepFor, status, exc, excLine, exitCode>>

\* extensions.pop(0); retry = False
PopEntry ==
    /\ pc = "pop"
    /\ extensions' = Tail(extensions)
    /\ retry' = FALSE
    /\ log' = Append(log, Ev("pop", item, 0, <<>>))
    /\ pc' = "sleep"
    /\ UNCHANGED <<argv, listFile, download_only, queue0, entry, item,
                   extension, dst, res, limit, remaining, reset, clock,
                   sleepFor, status, exc, excLine, exitCode>>

\* (reset_time - datetime.datetime.now()).seconds: the seconds field of a
\* normalised timedelta, always in 0..86399.
SleepSeconds(resetAt, now) == (resetAt - now) % SecondsPerDay

\* datetime.fromtimestamp: a negative timestamp is converted on some platforms
\* and raises OSError on others; both outcomes are kept. The timestamps of the
\* model are below 2^31, where a non-negative one always converts.
FromTimestampMayRaise(t) == t < 0
FromTimestampMayReturn(t) == TRUE

\* if limit != -1: time.sleep((fromtimestamp(reset) - now()).seconds)
Sleep(now) ==
    /\ pc = "sleep"
    /\ limit # -1
    /\ FromTimestampMayReturn(reset)
    /\ clock' = now
    /\ sleepFor' = SleepSeconds(reset, now)
    /\ pc' = "companion"
    /\ UNCHANGED <<argv, listFile, download_only, extensions, queue0, retry,
                   entry, item, extension, dst, res, limit, remaining, reset,
                   status, log, exc, excLine, exitCode>>

\* if limit != -1: datetime.fromtimestamp(reset) raises
SleepRaises ==
    /\ pc = "sleep"
    /\ limit # -1
    /\ FromTimestampMayRaise(reset)
    /\ Raise("OSError", 144)
    /\ UNCHANGED <<argv, listFile, download_only, extensions, queue0, retry,
                   entry, item, extension, dst, res, limit, remaining, reset,
                   clock, sleepFor, status, log, exitCode>>

\* if limit != -1: false
NoSleep ==
    /\ pc = "sleep"
    /\ limit = -1
    /\ pc' = "companion"
    /\ UNCHANGED <<argv, listFile, download_only, extensions, queue0, retry,
                   entry, item, extension, dst, res, limit, remaining, reset,
                   clock, sleepFor, status, log, exc, excLine, exitCode>>

\* if extension['extension'] == 'remote-ssh': download the server archive.
\* The version query (code.cmd -v) is taken to answer with two lines.
CompanionDownload ==
    /\ pc = "companion"
    /\ extension.extension = RemoteSsh
    /\ dst' = PathJoin(ExtDir, ServerTgz)
    /\ log' = Append(log, Ev("aux", item, 200, dst'))
    /\ pc' = "while"
    /\ UNCHANGED <<argv, listFile, download_only, extensions, queue0, retry,
                   entry, item, extension, res, limit, remaining, reset,
                   clock, sleepFor, status, exc, excLine, exitCode>>

\* Variant of CompanionDownloadFails that catches the error and goes on.
CompanionDownloadFailsIgnored(code) ==
    /\ pc = "companion"
    /\ extension.extension = RemoteSsh
    /\ dst' = PathJoin(ExtDir, ServerTgz)
    /\ log' = Append(log, Ev("aux", item, code, dst'))
    /\ pc' = "while"
    /\ UNCHANGED <<argv, listFile, download_only, extensions, queue0, retry,
                   entry, item, extension, res, limit, remaining, reset, clock,
                   sleepFor, status, exc, excLine, exitCode>>

\* the urlopen of the server archive raises HTTPError, outside any try
CompanionDownloadFails(code) ==
    /\ pc = "companion"
    /\ extension.extension = RemoteSsh
    /\ dst' = PathJoin(ExtDir, ServerTgz)
    /\ log' = Append(log, Ev("aux", item, code, dst'))
    /\ Raise("HTTPError", 170)
    /\ UNCHANGED <<argv, listFile, download_only, extensions, queue0, retry,
                   entry, item, extension, res, limit, remaining, reset,
                   clock, sleepFor, status, exitCode>>

\* if extension['extension'] == 'remote-ssh': false
NoCompanion ==
    /\ pc = "companion"
    /\ extension.extension # RemoteSsh
    /\ pc' = "while"
    /\ UNCHANGED <<argv, listFile, download_only, extensions, queue0, retry,
                   entry, item, extension, dst, res, limit, remaining, reset,
                   clock, sleepFor, status, log, exc, excLine, exitCode>>

\* ------------------------------------------------------ main(), the end
\* Exception classes caught by 'except Exception'; SystemExit is not one.
ExceptionClasses == {"AttributeError", "ValueError", "HTTPError", "OSError"}

\* else: return 0, and sys.exit(0)
MainElse ==
    /\ pc = "returned"
    /\ exitCode' = 0
    /\ pc' = "exit"
    /\ UNCHANGED <<argv, listFile, download_only, extensions, queue0, retry,
                   entry, item, extension, dst, res, limit, remaining, reset,
                   clock, sleepFor, status, log, exc, excLine>>

\* except Exception: return 1, and sys.exit(1)
MainExcept ==
    /\ pc = "raised"
    /\ exc \in ExceptionClasses
    /\ exitCode' = 1
    /\ pc' = "exit"
    /\ UNCHANGED <<argv, listFile, download_only, extensions, queue0, retry,
                   entry, item, extension, dst, res, limit, remaining, reset,
                   clock, sleepFor, status, log, exc, excLine>>

\* SystemExit (raised without a code) passes 'except Exception' and leaves
\* main(); the interpreter exits with status 0 for a SystemExit whose code is
\* None.
SystemExitPropagates ==
    /\ pc = "raised"
    /\ exc \notin ExceptionClasses
    /\ exitCode' = 0
    /\ pc' = "exit"
    /\ UNCHANGED <<argv, listFile, download_only, extensions, queue0, retry,
                   entry, item, extension, dst, res, limit, remaining, reset,
                   clock, sleepFor, status, log, exc, excLine>>

Next ==
    \/ MainBuild
    \/ InstallNoExtensions
    \/ InstallBegin
    \/ LoopExit
    \/ ParseEntry
    \/ ParseEntryFails
    \/ \E h \in HeaderMaps : FetchOk(h)
    \/ \E h \in HeaderMaps : FetchOkBadHeader(h)
    \/ \E code \in ErrorCodes : FetchHttpError(code)
    \/ FetchRateLimitedExhausted
    \/ \E h \in HeaderMaps : FetchRateLimitedFirst(h)
    \/ \E h \in HeaderMaps : FetchRateLimitedBadHeader(h)
    \/ \E st \in ExitStatuses : InstallExtension(st)
    \/ SkipInstall
    \/ PopEntry
    \/ \E now \in NowValues : Sleep(now)
    \/ SleepRaises
    \/ NoSleep
    \/ CompanionDownload
    \/ \E code \in ErrorCodes : CompanionDownloadFails(code)
    \/ NoCompanion
    \/ MainElse
    \/ MainExcept
    \/ SystemExitPropagates

Spec == Init /\ [][Next]_vars

\* Every call of the program returns (fetch, installer, sleep), so a step that
\* can be taken is eventually taken.
FairSpec == Spec /\ WF_vars(Next)

\* ------------------------------------------------------------ properties
Max(a, b) == IF a >= b THEN a ELSE b

IsFetch(k) == log[k].op = "fetch"
FetchesOf(i) == {k \in DOMAIN log : IsFetch(k) /\ log[k].idx = i}
OkFetches == {k \in DOMAIN log : IsFetch(k) /\ log[k].val = 200}
\* Position of the last main fetch before position k, 0 if there is none.
PrevFetch(k) ==
    IF \E j \in 1..(k - 1) : IsFetch(j)
    THEN CHOOSE j \in 1..(k - 1) : IsFetch(j) /\ \A m \in (j + 1)..(k - 1) : ~IsFetch(m)
    ELSE 0
\* A 429 answer to the fetch at position k.
Is429(k) == IsFetch(k) /\ log[k].val = RateLimited
\* ... that follows a 429 answer to the previous fetch of the same entry.
IsSecond429(k) ==
    /\ Is429(k)
    /\ PrevFetch(k) # 0
    /\ Is429(PrevFetch(k))
    /\ log[PrevFetch(k)].idx = log[k].idx
Popped(i) == \E k \in DOMAIN log : log[k].op = "pop" /\ log[k].idx = i
InstallsOf(i) == {k \in DOMAIN log : log[k].op = "install" /\ log[k].idx = i}
Terminated == pc = "exit"
Fatal == exc # "none"
\* No successful fetch is waiting for its install and pop.
BetweenItems == pc \notin {"run", "pop"}
Removed == Len(queue0) - Len(extensions)

\* C1: the exit code is 0 exactly when the run ends with every entry fetched
\* and no error, and it is 1 for every run that ends with an error, a second
\* 429 for the same entry included.
ExitCodeContract ==
    Terminated =>
        /\ (exitCode = 0) <=>
             (/\ ~Fatal
              /\ extensions = <<>>
              /\ \A i \in 1..Len(queue0) : FetchesOf(i) \cap OkFetches # {})
        /\ Fatal => exitCode = 1

\* C2: a 429 answer that follows a 429 answer to the previous fetch of the
\* same entry ends the run at once: it is the last operation of the run, the
\* list is not touched and no later entry is ever fetched.
ExhaustionEndsRun ==
    \A k \in DOMAIN log :
        IsSecond429(k) =>
            /\ k = Len(log)
            /\ pc \in {"raised", "exit"}
            /\ exc = "SystemExit"
            /\ Removed = log[k].idx - 1
            /\ \A j \in DOMAIN log : log[j].idx <= log[k].idx

ExhaustionWitness ==
    /\ Terminated
    /\ Len(log) >= 2
    /\ IsSecond429(Len(log))
    /\ Len(extensions) >= 2

\* C3: a 429 answer while retry is false leaves the list unchanged and sets
\* retry, and the next main fetch is for the same entry.
FirstRateLimitRetriesSameItem ==
    /\ [][(/\ pc = "fetch"
           /\ ~retry
           /\ Len(log') = Len(log) + 1
           /\ log'[Len(log')].op = "fetch"
           /\ log'[Len(log')].val = RateLimited)
          => (extensions' = extensions /\ retry')]_vars
    /\ [](\A k \in DOMAIN log :
            (IsFetch(k) /\ PrevFetch(k) # 0 /\ Is429(PrevFetch(k)))
                => log[k].idx = log[PrevFetch(k)].idx)

\* C4: every entry is fetched at most twice, and retry is false whenever an
\* entry is about to be fetched for the first time.
OneRetryPerItem ==
    /\ \A i \in 1..Len(queue0) : Cardinality(FetchesOf(i)) <= 2
    /\ (pc = "fetch" /\ FetchesOf(item) = {}) => ~retry

OneRetryPerItemWitness ==
    /\ Len(queue0) >= 2
    /\ \E a, b \in DOMAIN log :
        /\ a < b
        /\ Is429(a) /\ log[a].idx = 1
        /\ Is429(b) /\ log[b].idx = 2
        /\ Popped(1)
        /\ Popped(2)

\* C5: the list is always a suffix of the initial list, and between items the
\* number of entries removed equals the number of successful main fetches.
QueueDrainsOnSuccessOnly ==
    /\ Removed >= 0
    /\ extensions = SubSeq(queue0, Removed + 1, Len(queue0))
    /\ BetweenItems => Removed = Cardinality(OkFetches)

\* C6: whenever the loop sleeps on a response that carries a reset timestamp,
\* the duration is max(0, reset - now).
SleepIsClampedDifference ==
    (sleepFor # -1 /\ HReset \in DOMAIN res) => sleepFor = Max(0, reset - clock)

\* C7: the loop sleeps only on a response that carries X-RateLimit-Reset.
SleepsOnlyOnResetSignal ==
    (sleepFor # -1 \/ excLine = 144) => HReset \in DOMAIN res

\* C8: a response with an unparsable rate-limit header does not end the run
\* with the error of reading it, and when its fetch succeeded the entry is
\* still installed (unless download-only) and popped.
UnparsableHeaderIsNoSignal ==
    (Unparsable(res) # {} /\ BetweenItems /\ pc # "fetch") =>
        /\ excLine \notin {115, 116, 117, 137, 138, 139}
        /\ \A k \in OkFetches :
              /\ Popped(log[k].idx)
              /\ ~download_only => InstallsOf(log[k].idx) # {}

\* C9: in download-only mode the installer is never invoked, and every
\* successful fetch pops its entry.
DownloadOnlyPopsWithoutInstall ==
    download_only =>
        /\ \A k \in DOMAIN log : log[k].op # "install"
        /\ BetweenItems => \A k \in OkFetches : Popped(log[k].idx)

\* C10: with download-only disabled every successful fetch is followed by one
\* installer invocation on the downloaded path and then by the pop of the
\* entry, whatever the installer's exit status, and the installer's status
\* never raises an error.
InstallThenPopRegardless ==
    ~download_only =>
        /\ BetweenItems =>
             \A k \in OkFetches :
                /\ k + 2 <= Len(log)
                /\ log[k + 1] = Ev("install", log[k].idx, log[k + 1].val, log[k].path)
                /\ log[k + 2] = Ev("pop", log[k].idx, 0, <<>>)
                /\ Cardinality(InstallsOf(log[k].idx)) = 1
        /\ excLine \notin 119..126

\* An HTTP error other than 429 answered the main fetch at position k.
IsHttpError(k) == IsFetch(k) /\ log[k].val \notin {200, RateLimited}

\* C11: an HTTP error other than 429 ends the run at once, whatever retry is:
\* the fetch is the last operation of the run, the entry is not popped, no
\* sleep follows and no later entry is fetched.
HttpErrorEndsRun ==
    \A k \in DOMAIN log :
        IsHttpError(k) =>
            /\ k = Len(log)
            /\ pc \in {"raised", "exit"}
            /\ exc = "HTTPError"
            /\ excLine = 131
            /\ Removed = log[k].idx - 1
            /\ sleepFor = -1
            /\ \A j \in DOMAIN log : log[j].idx <= log[k].idx

HttpErrorWitness ==
    /\ Terminated
    /\ Len(log) >= 2
    /\ IsHttpError(Len(log))
    /\ retry
    /\ Is429(PrevFetch(Len(log)))
    /\ Len(extensions) >= 2

\* The whole token has the form publisher '.' extension '@' version.
Conforms(s) == Matches(s) /\ PubLen(s) + ExtLen(s) + VerLen(s) + 2 = Len(s)

\* C12: a token that violates the identifier pattern is never fetched, nor is
\* any later token; when it reaches the head the parse fails and the list is
\* left as it was.
MalformedTokenAborts ==
    \A i \in 1..Len(queue0) :
        ~Conforms(queue0[i]) =>
            /\ \A k \in DOMAIN log : log[k].idx < i
            /\ item = i =>
                 /\ exc = "AttributeError"
                 /\ excLine = 100
                 /\ extensions = SubSeq(queue0, i, Len(queue0))

\* The tokens of the list file: its lines without trailing whitespace.
FileTokens ==
    IF listFile = <<>> THEN <<>>
    ELSE [i \in 1..Len(listFile[1]) |-> RStrip(listFile[1][i])]

\* C13 as stated: the list is the file's tokens followed by the command-line
\* identifiers, and no command-line identifier is fetched while a file token
\* is still in the list.
QueueIsFileThenArgs ==
    pc # "main" =>
        /\ queue0 = FileTokens \o argv
        /\ \A k \in DOMAIN log :
              (IsFetch(k) /\ log[k].idx <= Len(argv)) => Len(FileTokens) = 0

\* C13 as amended: the list is the command-line identifiers, in argument
\* order, followed by the file's tokens, in file order, and a file token is
\* fetched only after every command-line identifier has left the list.
QueueIsArgsThenFile ==
    pc # "main" =>
        /\ queue0 = argv \o FileTokens
        /\ \A k \in DOMAIN log :
              IsFetch(k) => log[k].path = PathJoin(ExtDir, VsixName(queue0[log[k].idx]))
        /\ (pc = "fetch" /\ item > Len(argv)) =>
              /\ Removed >= Len(argv)
              /\ entry = FileTokens[item - Len(argv)]

QueueIsArgsThenFileWitness ==
    /\ pc = "fetch"
    /\ argv = <<TokSsh>>
    /\ FileTokens = <<TokPlain>>
    /\ entry = TokPlain
    /\ Popped(1)

AuxOf(i) == {k \in DOMAIN log : log[k].op = "aux" /\ log[k].idx = i}
IsCompanionItem(i) == Matches(queue0[i]) /\ GroupDict(queue0[i]).extension = RemoteSsh

\* C14: an entry named remote-ssh gets exactly one companion download over the
\* run, also when its first fetch was answered 429 and it was retried; an
\* entry of any other name gets none.
OneCompanionDownloadPerItem ==
    \A i \in 1..Len(queue0) :
        /\ Cardinality(AuxOf(i)) <= (IF IsCompanionItem(i) THEN 1 ELSE 0)
        /\ (IsCompanionItem(i) /\ Terminated /\ ~Fatal) => Cardinality(AuxOf(i)) = 1

\* publisher '.' extension '@' version
Rebuild(g) == g.publisher \o <<".">> \o g.extension \o <<"@">> \o g.version

\* C15: for every token the parser accepts, rebuilding it from the parsed
\* fields gives the token back.
ParseRoundTrip ==
    pc = "fetch" => Rebuild(extension) = entry

\* C16: every run reaches the end of main(), with the list empty or with an
\* error, and on the way no entry is fetched more than twice.
RunTerminates ==
    /\ <>Terminated
    /\ [](\A i \in 1..Len(queue0) : Cardinality(FetchesOf(i)) <= 2)
    /\ [](Terminated => (Fatal \/ extensions = <<>>))

RunTerminatesWitness ==
    /\ Terminated
    /\ ~Fatal
    /\ Len(queue0) >= 2
    /\ \A i \in 1..Len(queue0) : Cardinality(FetchesOf(i)) = 2

\* Position in the log of the latest main fetch, 0 if there is none.
LastFetch == PrevFetch(Len(log) + 1)

\* C17: the loop sleeps only in an iteration whose fetch was answered 429;
\* after a successful fetch it goes on to the next entry without sleeping,
\* whatever rate-limit headers the response carries.
SleepsOnlyAfterRateLimit ==
    (sleepFor # -1 \/ excLine = 144) => (LastFetch # 0 /\ Is429(LastFetch))

\* The companion download at position k was answered with an HTTP error.
IsAuxError(k) == log[k].op = "aux" /\ log[k].val # 200

\* C18: an HTTP error of the companion download, 429 included, ends the run
\* at once: it is the last operation, it is not retried, no later entry is
\* fetched and the exit code is 1.
CompanionErrorEndsRun ==
    \A k \in DOMAIN log :
        IsAuxError(k) =>
            /\ k = Len(log)
            /\ pc \in {"raised", "exit"}
            /\ exc = "HTTPError"
            /\ excLine = 170
            /\ \A j \in DOMAIN log : log[j].idx <= log[k].idx
            /\ Terminated => exitCode = 1

CompanionErrorWitness ==
    /\ Terminated
    /\ Len(log) >= 1
    /\ IsAuxError(Len(log))
    /\ log[Len(log)].val = RateLimited
    /\ ~retry
    /\ extensions # <<>>
    /\ exitCode = 1

\* C19: the installer runs at most once per entry, directly after a
\* successful fetch of that entry and before the entry is popped; it never
\* runs for an entry whose latest fetch was answered with 429 or an error.
InstallOnlyAfterSuccess ==
    \A k \in DOMAIN log :
        log[k].op = "install" =>
            /\ k > 1
            /\ log[k - 1] = Ev("fetch", log[k].idx, 200, log[k].path)
            /\ Cardinality(InstallsOf(log[k].idx)) = 1
            /\ \A j \in 1..k : ~(log[j].op = "pop" /\ log[j].idx = log[k].idx)
            /\ ~download_only

InstallOnlyAfterSuccessWitness ==
    /\ Len(log) >= 4
    /\ Is429(Len(log) - 3)
    /\ log[Len(log) - 1].op = "install"
    /\ log[Len(log)].op = "pop"
    /\ log[Len(log) - 3].idx = log[Len(log)].idx
    /\ status = 1

====
